---------------------------- MODULE Spec2Model ----------------------------
(***************************************************************************)
(* A model of the read-only SQLite file reader of app/main.go.             *)
(*                                                                         *)
(* The database file is a sequence of bytes (0..255), the encoding File of  *)
(* the description held in the variable fixture.  File offsets are         *)
(* 0-based as in the Go code, so the byte at offset o is file[o + 1].      *)
(* Text values are sequences of byte codes ("table" is <<116,97,...>>).    *)
(*                                                                         *)
(* The variables fixture, cmd and result are the file, the command and the *)
(* outcome of a run of the program (Spec); arg and ret are the arguments   *)
(* and the return value of a routine that is run on its own (UnitSpec).    *)
(*                                                                         *)
(* Every routine of the program is an operator computed as the code        *)
(* computes it, on the bytes.  A routine that can end in a run-time panic  *)
(* (index or slice out of range) or never return (an unbounded loop or     *)
(* unbounded recursion) returns a record whose st field says so:           *)
(*    "ok"       the routine returned normally                             *)
(*    "panic"    the Go runtime aborted the program                        *)
(*    "diverge"  the routine never returns normally                        *)
(***************************************************************************)
EXTENDS Integers, Sequences, FiniteSets, TLC

VARIABLES fixture, pc, cmd, result, arg, ret

vars == <<fixture, pc, cmd, result, arg, ret>>

(***************************************************************************)
(* Small helpers.  Bind(v, Body) is Body(v): it names a value that the     *)
(* code keeps in a local variable.                                         *)
(***************************************************************************)
Bind(v, Body(_)) == Body(v)

Zeros(n) == [i \in 1..n |-> 0]

\* Go's s[lo:hi] on a sequence, 0-based, for 0 <= lo <= hi <= Len(s)
Slice(s, lo, hi) == [i \in 1..(hi - lo) |-> s[lo + i]]

RECURSIVE Flatten(_)
Flatten(ss) == IF ss = <<>> THEN <<>> ELSE Head(ss) \o Flatten(Tail(ss))

BE(bytes) ==
    LET RECURSIVE Acc(_, _)
        Acc(i, v) == IF i > Len(bytes) THEN v ELSE Acc(i + 1, v * 256 + bytes[i])
    IN Acc(1, 0)

(***************************************************************************)
(* Text constants of the program and of the files it reads.                *)
(***************************************************************************)
StrTable == <<116, 97, 98, 108, 101>>
StrNULL == <<78, 85, 76, 76>>
StrInvalidBlob == <<73, 110, 118, 97, 108, 105, 100, 32, 66, 76, 79, 66>>
StrInvalidString == <<73, 110, 118, 97, 108, 105, 100, 32, 83, 116, 114, 105, 110, 103>>
StrUnknownType == <<85, 110, 107, 110, 111, 119, 110, 32, 84, 121, 112, 101>>
StrReservedOpen == <<82, 101, 115, 101, 114, 118, 101, 100, 40>>
StrBlobOpen == <<66, 76, 79, 66, 40>>
StrBytesClose == <<32, 98, 121, 116, 101, 115, 41>>
ChBar == 124
ChMinus == 45
ChZero == 48
ChOpenParen == 40
ChCloseParen == 41
ChComma == 44
ChSpace == 32
ChQuote == 39
WhiteSpace == {9, 10, 11, 12, 13, 32}

(***************************************************************************)
(* strconv.FormatInt(n, 10), fmt.Sprintf("%d", n) and strconv.Atoi.        *)
(***************************************************************************)
RECURSIVE Digits(_)
Digits(n) == IF n < 10 THEN <<ChZero + n>> ELSE Append(Digits(n \div 10), ChZero + (n % 10))

\* the digits of a negative number, taken from the number itself: its
\* negation need not be an int32
RECURSIVE NegDigits(_)
NegDigits(n) ==
    Bind((10 - (n % 10)) % 10, LAMBDA d :
         IF n > -10 THEN <<ChZero + d>>
         ELSE Append(NegDigits((n + d) \div 10), ChZero + d))

FormatInt(n) == IF n < 0 THEN <<ChMinus>> \o NegDigits(n) ELSE Digits(n)

IsDigits(s) == s # <<>> /\ \A i \in 1..Len(s) : s[i] \in ChZero..(ChZero + 9)

RECURSIVE DigitsValue(_, _)
DigitsValue(s, acc) ==
    IF s = <<>> THEN acc ELSE DigitsValue(Tail(s), acc * 10 + (Head(s) - ChZero))

\* num, _ := strconv.Atoi(s): the parsed number, 0 when s is no decimal number
Atoi(s) ==
    IF s # <<>> /\ Head(s) = ChMinus /\ IsDigits(Tail(s)) THEN 0 - DigitsValue(Tail(s), 0)
    ELSE IF s # <<>> /\ Head(s) = 43 /\ IsDigits(Tail(s)) THEN DigitsValue(Tail(s), 0)
    ELSE IF IsDigits(s) THEN DigitsValue(s, 0)
    ELSE 0

(***************************************************************************)
(* readBytesAtOffset: seek, then read exactly numBytes bytes.              *)
(* A negative offset fails in Seek; a read at or past the end of the file  *)
(* is an EOF error; fewer than numBytes bytes is the short-read error.     *)
(***************************************************************************)
ReadErr == [ok |-> FALSE, data |-> <<>>]

readBytesAtOffset(f, offset, numBytes) ==
    IF offset < 0 THEN ReadErr
    ELSE IF numBytes = 0 THEN [ok |-> TRUE, data |-> <<>>]
    ELSE IF offset + numBytes > Len(f) THEN ReadErr
    ELSE [ok |-> TRUE, data |-> Slice(f, offset, offset + numBytes)]

(***************************************************************************)
(* 64-bit integers.  An int64 of the program whose value can leave the     *)
(* range of the integers that are computed with here is held as the        *)
(* sequence of its 64 bits in two's complement, most significant first.    *)
(***************************************************************************)
Bits8(b) == <<(b \div 128) % 2, (b \div 64) % 2, (b \div 32) % 2, (b \div 16) % 2, (b \div 8) % 2, (b \div 4) % 2, (b \div 2) % 2, b % 2>>

BytesBits(bytes) == Flatten([k \in 1..Len(bytes) |-> Bits8(bytes[k])])

ZeroWord == [i \in 1..64 |-> 0]

\* (value << Len(low)) | low, on 64 bits: the top bits are shifted out
ShiftIn(value, low) == Slice(value, Len(low), 64) \o low

\* the byte whose bits are word[k + 1 .. k + 8]
ByteAt(word, k) ==
    word[k + 1] * 128 + word[k + 2] * 64 + word[k + 3] * 32 + word[k + 4] * 16
    + word[k + 5] * 8 + word[k + 6] * 4 + word[k + 7] * 2 + word[k + 8]

\* whether an int64 lies in -2^31 .. 2^31 - 1
FitsInt(word) == \A i \in 1..33 : word[i] = word[1]

\* an int64 within FitsInt as an integer: the low 31 bits, less 2^31 when
\* the sign bit is set.  The files and the inputs of the model keep the
\* payload sizes, header sizes, row-ids and serial types within FitsInt.
ToInt(word) ==
    (ByteAt(word, 32) % 128) * 16777216 + ByteAt(word, 40) * 65536
    + ByteAt(word, 48) * 256 + ByteAt(word, 56)
    - (IF word[1] = 1 THEN 2147483647 ELSE 0) - word[1]

(***************************************************************************)
(* readVarint(data, index): the loop of lines 53-70, i counting the bytes  *)
(* consumed so far; value is the int64 being shifted, as its 64 bits.      *)
(***************************************************************************)
\* readVarintLoop with the 9th byte giving its low 7 bits as the first 8 do
RECURSIVE readVarintLoopNinthSeven(_, _, _, _, _)
readVarintLoopNinthSeven(data, index, maxBytes, i, value) ==
    IF ~(i < maxBytes /\ i < 9) THEN [st |-> "ok", value |-> value, bytesRead |-> i]
    ELSE IF data[index + i + 1] < 128
         THEN [st |-> "ok", value |-> ShiftIn(value, Slice(Bits8(data[index + i + 1]), 1, 8)),
               bytesRead |-> i + 1]
    ELSE readVarintLoopNinthSeven(data, index, maxBytes, i + 1,
                                  ShiftIn(value, Slice(Bits8(data[index + i + 1]), 1, 8)))

RECURSIVE readVarintLoop(_, _, _, _, _)
readVarintLoop(data, index, maxBytes, i, value) ==
    IF ~(i < maxBytes /\ i < 9) THEN [st |-> "ok", value |-> value, bytesRead |-> i]
    ELSE IF index + i < 0 \/ index + i >= Len(data)
         THEN [st |-> "panic", value |-> value, bytesRead |-> i + 1]
    ELSE Bind(data[index + i + 1], LAMBDA b :
         IF i < 8
         THEN IF b < 128
              THEN [st |-> "ok", value |-> ShiftIn(value, Slice(Bits8(b), 1, 8)),
                    bytesRead |-> i + 1]
              ELSE readVarintLoop(data, index, maxBytes, i + 1,
                                  ShiftIn(value, Slice(Bits8(b), 1, 8)))
         ELSE [st |-> "ok", value |-> ShiftIn(value, Bits8(b)), bytesRead |-> i + 1])

\* readVarint with the scan window never clamped to the bytes that remain
readVarintUnclamped(data, index) ==
    IF index >= Len(data) THEN [st |-> "ok", value |-> ZeroWord, bytesRead |-> 0]
    ELSE readVarintLoop(data, index, 9, 0, ZeroWord)

readVarint(data, index) ==
    IF index >= Len(data) THEN [st |-> "ok", value |-> ZeroWord, bytesRead |-> 0]
    ELSE readVarintLoop(data, index,
                        IF index + 9 > Len(data) THEN Len(data) - index ELSE 9, 0, ZeroWord)

\* a varint read whose value is then used as an integer (payload size,
\* row-id, header size, serial type); the model does not go on with a
\* value outside FitsInt
readVarintInt(data, index) ==
    Bind(readVarint(data, index), LAMBDA v :
         [value |-> IF FitsInt(v.value) THEN ToInt(v.value) ELSE CHOOSE n \in {} : TRUE,
          bytesRead |-> v.bytesRead])

(***************************************************************************)
(* getSerialTypeSize and processSerialType.                                *)
(***************************************************************************)
\* getSerialTypeSize with the reserved tags 10 and 11 sized as a blob and a
\* text are
getSerialTypeSizeFromTen(serialType) ==
    CASE serialType \in {0, 8, 9} -> 0
      [] serialType \in 1..4 -> serialType
      [] serialType = 5 -> 6
      [] serialType \in {6, 7} -> 8
      [] serialType >= 10 /\ serialType % 2 = 0 -> (serialType - 12) \div 2
      [] serialType >= 11 /\ serialType % 2 = 1 -> (serialType - 13) \div 2
      [] OTHER -> 0

getSerialTypeSize(serialType) ==
    CASE serialType \in {0, 8, 9} -> 0
      [] serialType = 1 -> 1
      [] serialType = 2 -> 2
      [] serialType = 3 -> 3
      [] serialType = 4 -> 4
      [] serialType = 5 -> 6
      [] serialType \in {6, 7} -> 8
      [] serialType >= 12 /\ serialType % 2 = 0 -> (serialType - 12) \div 2
      [] serialType >= 13 /\ serialType % 2 = 1 -> (serialType - 13) \div 2
      [] OTHER -> 0

\* a big-endian two's-complement integer of Len(bytes) bytes
Signed(bytes) ==
    IF bytes[1] >= 128 THEN BE(<<bytes[1] - 256>> \o Tail(bytes)) ELSE BE(bytes)

\* line 112: int32(Uint32(0, b0, b1, b2)) >> 8
Int24(value) == BE(<<0, value[1], value[2], value[3]>>) \div 256

\* word >> n on an int64: the sign bit fills the top
ShiftRightArith(word, n) == [i \in 1..64 |-> IF i <= n THEN word[1] ELSE word[i - n]]

\* line 118: int64(Uint64(0, 0, b0, .., b5)) >> 16
Int48(value) == ShiftRightArith(BytesBits(<<0, 0>> \o Slice(value, 0, 6)), 16)

\* an unsigned 64-bit word as its four 16-bit digits, most significant first
Limbs(word) == [k \in 1..4 |-> ByteAt(word, 16 * (k - 1)) * 256 + ByteAt(word, 16 * (k - 1) + 8)]

\* the quotient (as 16-bit digits) and the remainder of a division by ten
DivTen(l) ==
    LET x2 == (l[1] % 10) * 65536 + l[2]
        x3 == (x2 % 10) * 65536 + l[3]
        x4 == (x3 % 10) * 65536 + l[4]
    IN [q |-> <<l[1] \div 10, x2 \div 10, x3 \div 10, x4 \div 10>>, r |-> x4 % 10]

\* the decimal digits of an unsigned number given by its 16-bit digits,
\* none for zero
RECURSIVE LimbDigits(_)
LimbDigits(l) ==
    IF l = <<0, 0, 0, 0>> THEN <<>>
    ELSE Bind(DivTen(l), LAMBDA d : Append(LimbDigits(d.q), ChZero + d.r))

WordDigits(word) == LimbDigits(Limbs(word))

\* the magnitude of a negative int64, as an unsigned word: the bits are
\* inverted and one is added
Magnitude(word) ==
    LET inv == [i \in 1..64 |-> 1 - word[i]]
        k == CHOOSE k \in 1..64 : inv[k] = 0 /\ \A j \in (k + 1)..64 : inv[j] = 1
    IN [i \in 1..64 |-> IF i < k THEN inv[i] ELSE IF i = k THEN 1 ELSE 0]

\* fmt.Sprintf("%d", num) for an int64 num
FormatWord(word) ==
    IF word = ZeroWord THEN <<ChZero>>
    ELSE IF word[1] = 1 THEN <<ChMinus>> \o WordDigits(Magnitude(word))
    ELSE WordDigits(word)

\* The text of a floating-point value (lines 123-126) is kept as the tag
\* and the value bytes, which determine the text the code prints.
WideValue(serialType, value) == <<0 - serialType>> \o value

\* Every branch reads within value, which the callers slice to exactly
\* getSerialTypeSize(serialType) bytes.
processSerialType(serialType, value) ==
    CASE serialType = 0 -> StrNULL
      [] serialType = 1 -> FormatInt(Signed(Slice(value, 0, 1)))
      [] serialType = 2 -> FormatInt(Signed(Slice(value, 0, 2)))
      [] serialType = 3 -> FormatInt(Int24(value))
      [] serialType = 4 -> FormatInt(Signed(Slice(value, 0, 4)))
      [] serialType = 5 -> FormatWord(Int48(value))
      [] serialType = 6 -> FormatWord(BytesBits(Slice(value, 0, 8)))
      [] serialType = 7 -> WideValue(serialType, value)
      [] serialType = 8 -> <<ChZero>>
      [] serialType = 9 -> <<ChZero + 1>>
      [] serialType \in {10, 11} -> StrReservedOpen \o FormatInt(serialType) \o <<ChCloseParen>>
      [] serialType >= 12 /\ serialType % 2 = 0 ->
            LET blobLen == (serialType - 12) \div 2 IN
            IF Len(value) >= blobLen
            THEN StrBlobOpen \o FormatInt(blobLen) \o StrBytesClose
            ELSE StrInvalidBlob
      [] serialType >= 13 /\ serialType % 2 = 1 ->
            LET strLen == (serialType - 13) \div 2 IN
            IF Len(value) >= strLen THEN Slice(value, 0, strLen) ELSE StrInvalidString
      [] OTHER -> StrUnknownType

(***************************************************************************)
(* Results of the routines that can panic or fail to return.               *)
(***************************************************************************)
Ok(out) == [st |-> "ok", out |-> out]
Panic == [st |-> "panic", out |-> <<>>]
Diverge == [st |-> "diverge", out |-> <<>>]

\* Go's data[lo:hi] panics unless 0 <= lo <= hi <= cap(data); the record
\* buffer is made with cap = len (line 27)
SliceInRange(data, lo, hi) == 0 <= lo /\ lo <= hi /\ hi <= Len(data)

(***************************************************************************)
(* Page accessors.                                                         *)
(***************************************************************************)
FileHeaderSize == 100
LeafPage == 13
InteriorPage == 5

\* var pageOffset int32 = (pageNumber - 1) * pageSize, plus 100 on page 1
PageOffset(pageNumber, pageSize) ==
    (pageNumber - 1) * pageSize + (IF pageNumber = 1 THEN FileHeaderSize ELSE 0)

getCellCount(f, pageOffset) ==
    LET r == readBytesAtOffset(f, pageOffset + 3, 2) IN IF r.ok THEN BE(r.data) ELSE 0

getRightmostChildPageNumber(f, pageOffset) ==
    LET r == readBytesAtOffset(f, pageOffset + 8, 4) IN IF r.ok THEN BE(r.data) ELSE 0

getCellContentOffset(f, cellPointerOffset) ==
    LET r == readBytesAtOffset(f, cellPointerOffset, 2) IN IF r.ok THEN BE(r.data) ELSE 0

\* the cell pointer of cell i of a page whose pointer array starts at
\* arrayStart (8 on a leaf, 12 on an interior page), made absolute
CellContentOffset(f, pageNumber, pageOffset, arrayStart, i) ==
    LET c == getCellContentOffset(f, pageOffset + arrayStart + (i * 2))
    IN IF pageNumber # 1 THEN c + pageOffset ELSE c

\* lines 441-454: the left child of each cell of an interior page, in cell
\* order; a cell whose 4 bytes cannot be read is skipped (continue)
RECURSIVE CellChildren(_, _, _, _, _)
CellChildren(f, pageNumber, pageOffset, cellCount, i) ==
    IF ~(i < cellCount) THEN <<>>
    ELSE LET r == readBytesAtOffset(f, CellContentOffset(f, pageNumber, pageOffset, 12, i), 4)
         IN (IF r.ok THEN <<BE(r.data)>> ELSE <<>>)
            \o CellChildren(f, pageNumber, pageOffset, cellCount, i + 1)

\* ChildPages with the right-most child forgotten
ChildPagesNoRight(f, pageNumber, pageOffset) ==
    CellChildren(f, pageNumber, pageOffset, getCellCount(f, pageOffset), 0)

\* ChildPages with the right-most child walked first
ChildPagesRightFirst(f, pageNumber, pageOffset) ==
    <<getRightmostChildPageNumber(f, pageOffset)>>
    \o CellChildren(f, pageNumber, pageOffset, getCellCount(f, pageOffset), 0)

\* The interior-page branch shared by the four walkers: the child page
\* numbers in the order they are walked.  A cell whose 4 bytes cannot be
\* read is skipped (continue); the right-most child comes last.
ChildPages(f, pageNumber, pageOffset) ==
    CellChildren(f, pageNumber, pageOffset, getCellCount(f, pageOffset), 0)
    \o <<getRightmostChildPageNumber(f, pageOffset)>>

(***************************************************************************)
(* processLeafCellRecord.  A failed read returns (nil, nil, 0, 0).  The    *)
(* serial-type loop of lines 209-213 does not advance once readVarint      *)
(* returns bytesRead = 0 (headerOffset at or past the end of data) while   *)
(* headerOffset < headerSize still holds: it then appends for ever.        *)
(* The record returned holds, besides the four values the routine returns, *)
(* headerOffset as the loop leaves it.                                     *)
(***************************************************************************)
NilRecord ==
    [st |-> "ok", data |-> <<>>, serialTypes |-> <<>>, bodyOffset |-> 0, rowId |-> 0,
     headerOffset |-> 0]

RECURSIVE SerialTypesLoop(_, _, _, _)
SerialTypesLoop(data, headerOffset, headerSize, serialTypes) ==
    IF ~(headerOffset < headerSize)
    THEN [st |-> "ok", out |-> serialTypes, headerOffset |-> headerOffset]
    ELSE Bind(readVarintInt(data, headerOffset), LAMBDA v :
         IF v.bytesRead = 0
         THEN [st |-> "diverge", out |-> <<>>, headerOffset |-> headerOffset]
         ELSE SerialTypesLoop(data, headerOffset + v.bytesRead, headerSize,
                              Append(serialTypes, v.value)))

processLeafCellRecord(f, cellContentOffset) ==
    Bind(readBytesAtOffset(f, cellContentOffset, 9), LAMBDA r1 :
    IF ~r1.ok THEN NilRecord ELSE
    Bind(readVarintInt(r1.data, 0), LAMBDA recordSize :
    Bind(readBytesAtOffset(f, cellContentOffset + recordSize.bytesRead, 9), LAMBDA r2 :
    IF ~r2.ok THEN NilRecord ELSE
    Bind(readVarintInt(r2.data, 0), LAMBDA rowId :
    Bind(readBytesAtOffset(f, cellContentOffset + recordSize.bytesRead + rowId.bytesRead,
                           recordSize.value), LAMBDA r3 :
    IF ~r3.ok THEN NilRecord ELSE
    Bind(readVarintInt(r3.data, 0), LAMBDA header :
    Bind(SerialTypesLoop(r3.data, header.bytesRead, header.value, <<>>), LAMBDA types :
        [st |-> types.st, data |-> r3.data, serialTypes |-> types.out,
         bodyOffset |-> header.value, rowId |-> rowId.value,
         headerOffset |-> types.headerOffset])))))))

\* The column loop that decodes every column of a record (lines 495-501):
\* the text of each column, or a panic when a column's slice leaves data.
RECURSIVE DecodeColumns(_, _, _, _)
DecodeColumns(data, serialTypes, k, bodyOffset) ==
    IF k > Len(serialTypes) THEN Ok(<<>>)
    ELSE Bind(getSerialTypeSize(serialTypes[k]), LAMBDA size :
         IF ~SliceInRange(data, bodyOffset, bodyOffset + size) THEN Panic
         ELSE Bind(DecodeColumns(data, serialTypes, k + 1, bodyOffset + size), LAMBDA rest :
              IF rest.st # "ok" THEN rest
              ELSE Ok(<<processSerialType(serialTypes[k],
                                          Slice(data, bodyOffset, bodyOffset + size))>>
                      \o rest.out)))

IsTextType(serialType) == serialType >= 13 /\ serialType % 2 = 1

(***************************************************************************)
(* The walkers.  path is the set of pages on the current chain of calls:   *)
(* a walker is a function of the page number alone (the file and the       *)
(* other arguments do not change), so a call on a page that is already on  *)
(* the chain repeats that chain for ever: unbounded recursion.             *)
(***************************************************************************)
\* PageType with every page that is not an interior page taken for a leaf
PageTypeUnknownAsLeaf(f, pageOffset) ==
    LET r == readBytesAtOffset(f, pageOffset, 1)
    IN IF r.ok /\ r.data[1] = InteriorPage THEN InteriorPage ELSE LeafPage

PageType(f, pageOffset) ==
    LET r == readBytesAtOffset(f, pageOffset, 1) IN IF r.ok THEN r.data[1] ELSE -1

\* countRecordsInBTree (lines 575-617)
RECURSIVE countRecordsInBTree(_, _, _, _)
countRecordsInBTree(f, pageNumber, pageSize, path) ==
    LET pageOffset == PageOffset(pageNumber, pageSize)
        RECURSIVE Kids(_, _)
        Kids(kids, numTables) ==
            IF kids = <<>> THEN Ok(numTables)
            ELSE Bind(countRecordsInBTree(f, Head(kids), pageSize, path \cup {pageNumber}),
                      LAMBDA r :
                 IF r.st # "ok" THEN r ELSE Kids(Tail(kids), numTables + r.out))
    IN IF pageNumber \in path THEN Diverge
       ELSE Bind(PageType(f, pageOffset), LAMBDA type :
            IF type = LeafPage THEN Ok(getCellCount(f, pageOffset))
            ELSE IF type = InteriorPage
                 THEN Kids(ChildPages(f, pageNumber, pageOffset), 0)
            ELSE Ok(0))

(***************************************************************************)
(* getNumTablesInBTree of unnamed/part_000 (lines 211-263), the record     *)
(* count of the .dbinfo of that file (line 293).                           *)
(***************************************************************************)
\* part_000 line 214: pageOffset := (pageNumber-1)*pageSize + headerSize
NumTablesPageOffset(pageNumber, pageSize) == (pageNumber - 1) * pageSize + FileHeaderSize

\* part_000 lines 237-251: the left child of each cell; the cell offset is
\* pageOffset plus the pointer read (line 243); an unreadable pointer or
\* cell is skipped
RECURSIVE NumTablesCellChildren(_, _, _, _)
NumTablesCellChildren(f, pageOffset, cellCount, i) ==
    IF ~(i < cellCount) THEN <<>>
    ELSE Bind(readBytesAtOffset(f, pageOffset + 12 + (i * 2), 2), LAMBDA ptr :
         (IF ~ptr.ok THEN <<>>
          ELSE Bind(readBytesAtOffset(f, pageOffset + BE(ptr.data), 4), LAMBDA cell :
               IF cell.ok THEN <<BE(cell.data)>> ELSE <<>>))
         \o NumTablesCellChildren(f, pageOffset, cellCount, i + 1))

RECURSIVE getNumTablesInBTree(_, _, _, _)
getNumTablesInBTree(f, pageNumber, pageSize, path) ==
    LET pageOffset == NumTablesPageOffset(pageNumber, pageSize)
        RECURSIVE Kids(_, _)
        Kids(kids, numTables) ==
            IF kids = <<>> THEN Ok(numTables)
            ELSE Bind(getNumTablesInBTree(f, Head(kids), pageSize, path \cup {pageNumber}),
                      LAMBDA r :
                 IF r.st # "ok" THEN r ELSE Kids(Tail(kids), numTables + r.out))
        \* lines 253-259: the right-most child, if its page number can be read
        Right(left) ==
            IF left.st # "ok" THEN left
            ELSE Bind(readBytesAtOffset(f, pageOffset + 8, 4), LAMBDA r :
                 IF ~r.ok THEN left
                 ELSE Kids(<<BE(r.data)>>, left.out))
    IN IF pageNumber \in path THEN Diverge
       ELSE Bind(PageType(f, pageOffset), LAMBDA type :
            Bind(readBytesAtOffset(f, pageOffset + 3, 2), LAMBDA count :
            IF type = LeafPage THEN Ok(IF count.ok THEN BE(count.data) ELSE 0)
            ELSE IF type = InteriorPage
                 THEN IF ~count.ok THEN Ok(0)
                      ELSE Right(Kids(NumTablesCellChildren(f, pageOffset, BE(count.data), 0), 0))
            ELSE Ok(0)))

\* getTablesNamesInBTree (lines 219-293)
RECURSIVE getTablesNamesInBTree(_, _, _, _)
getTablesNamesInBTree(f, pageNumber, pageSize, path) ==
    LET pageOffset == PageOffset(pageNumber, pageSize)
        \* lines 245-259: the names one cell adds
        Cell(i) ==
            Bind(processLeafCellRecord(f, CellContentOffset(f, pageNumber, pageOffset, 8, i)),
                 LAMBDA rec :
            IF rec.st # "ok" THEN Diverge ELSE
            Bind(DecodeColumns(rec.data, rec.serialTypes, 1, rec.bodyOffset), LAMBDA cols :
            IF cols.st # "ok" THEN Panic
            ELSE IF Len(cols.out) >= 3 /\ IsTextType(rec.serialTypes[3])
                 THEN Ok(<<cols.out[3]>>)
                 ELSE Ok(<<>>)))
        RECURSIVE Cells(_, _, _)
        Cells(cellCount, i, tables) ==
            IF ~(i < cellCount) THEN Ok(tables)
            ELSE Bind(Cell(i), LAMBDA r :
                 IF r.st # "ok" THEN r ELSE Cells(cellCount, i + 1, tables \o r.out))
        RECURSIVE Kids(_, _)
        Kids(kids, tables) ==
            IF kids = <<>> THEN Ok(tables)
            ELSE Bind(getTablesNamesInBTree(f, Head(kids), pageSize, path \cup {pageNumber}),
                      LAMBDA r :
                 IF r.st # "ok" THEN r ELSE Kids(Tail(kids), tables \o r.out))
    IN IF pageNumber \in path THEN Diverge
       ELSE Bind(PageType(f, pageOffset), LAMBDA type :
            IF type = LeafPage THEN Cells(getCellCount(f, pageOffset), 0, <<>>)
            ELSE IF type = InteriorPage
                 THEN Kids(ChildPages(f, pageNumber, pageOffset), <<>>)
            ELSE Ok(<<>>))

\* getCountInATable (lines 295-377).  On a leaf, foundTable is set by a
\* text column 2 equal to tableName and is never reset; column 3 of a row
\* read while foundTable is set gives the root page, and the count of that
\* tree is returned at once (columns after 3 are never sliced).
RECURSIVE getCountInATable(_, _, _, _, _)
getCountInATable(f, pageNumber, pageSize, tableName, path) ==
    LET pageOffset == PageOffset(pageNumber, pageSize)
        \* the column loop of one row (lines 324-345): "return" with the
        \* count, or "next" with foundTable as the row leaves it
        RECURSIVE Cols(_, _, _, _)
        Cols(rec, k, bodyOffset, foundTable) ==
            IF k > Len(rec.serialTypes) THEN [kind |-> "next", found |-> foundTable]
            ELSE Bind(getSerialTypeSize(rec.serialTypes[k]), LAMBDA size :
                 IF ~SliceInRange(rec.data, bodyOffset, bodyOffset + size)
                 THEN [kind |-> "return", r |-> Panic]
                 ELSE Bind(processSerialType(rec.serialTypes[k],
                                             Slice(rec.data, bodyOffset, bodyOffset + size)),
                           LAMBDA strValue :
                      Bind(foundTable \/ (k - 1 = 2 /\ IsTextType(rec.serialTypes[k])
                                          /\ strValue = tableName),
                           LAMBDA found :
                      IF k - 1 = 3 /\ found
                      THEN [kind |-> "return",
                            r |-> countRecordsInBTree(f, Atoi(strValue), pageSize, {})]
                      ELSE Cols(rec, k + 1, bodyOffset + size, found))))
        RECURSIVE Cells(_, _, _)
        Cells(cellCount, i, foundTable) ==
            IF ~(i < cellCount) THEN Ok(0)
            ELSE Bind(processLeafCellRecord(
                          f, CellContentOffset(f, pageNumber, pageOffset, 8, i)),
                      LAMBDA rec :
                 IF rec.st # "ok" THEN Diverge
                 ELSE Bind(Cols(rec, 1, rec.bodyOffset, foundTable), LAMBDA row :
                      IF row.kind = "return" THEN row.r
                      ELSE Cells(cellCount, i + 1, row.found)))
        RECURSIVE Kids(_, _)
        Kids(kids, count) ==
            IF kids = <<>> THEN Ok(count)
            ELSE Bind(getCountInATable(f, Head(kids), pageSize, tableName,
                                       path \cup {pageNumber}),
                      LAMBDA r :
                 IF r.st # "ok" THEN r ELSE Kids(Tail(kids), count + r.out))
    IN IF pageNumber \in path THEN Diverge
       ELSE Bind(PageType(f, pageOffset), LAMBDA type :
            IF type = LeafPage THEN Cells(getCellCount(f, pageOffset), 0, FALSE)
            ELSE IF type = InteriorPage
                 THEN Kids(ChildPages(f, pageNumber, pageOffset), 0)
            ELSE Ok(0))

(***************************************************************************)
(* The functions of package strings that the column resolver uses.         *)
(***************************************************************************)
\* strings.Index(s, c) and strings.LastIndex(s, c) for a one-byte c
Index(s, c) ==
    IF \E i \in 1..Len(s) : s[i] = c
    THEN (CHOOSE i \in 1..Len(s) : s[i] = c /\ \A j \in 1..(i - 1) : s[j] # c) - 1
    ELSE -1

LastIndex(s, c) ==
    IF \E i \in 1..Len(s) : s[i] = c
    THEN (CHOOSE i \in 1..Len(s) : s[i] = c /\ \A j \in (i + 1)..Len(s) : s[j] # c) - 1
    ELSE -1

\* strings.Split(s, c): always at least one piece
RECURSIVE Split(_, _)
Split(s, c) ==
    LET i == Index(s, c) IN
    IF i = -1 THEN <<s>> ELSE <<Slice(s, 0, i)>> \o Split(Slice(s, i + 1, Len(s)), c)

\* strings.Fields(s): the maximal runs of non-space bytes
RECURSIVE Fields(_)
Fields(s) ==
    IF s = <<>> THEN <<>>
    ELSE IF Head(s) \in WhiteSpace THEN Fields(Tail(s))
    ELSE LET n == IF \E i \in 1..Len(s) : s[i] \in WhiteSpace
                  THEN (CHOOSE i \in 1..Len(s) :
                            s[i] \in WhiteSpace /\ \A j \in 1..(i - 1) : s[j] \notin WhiteSpace) - 1
                  ELSE Len(s)
         IN <<Slice(s, 0, n)>> \o Fields(Slice(s, n, Len(s)))

\* strings.Join(words, " ")
RECURSIVE Join(_)
Join(words) ==
    IF words = <<>> THEN <<>>
    ELSE IF Len(words) = 1 THEN words[1]
    ELSE words[1] \o <<ChSpace>> \o Join(Tail(words))

\* strings.Trim(s, "'")
RECURSIVE Trim(_)
Trim(s) ==
    IF s = <<>> THEN s
    ELSE IF Head(s) = ChQuote THEN Trim(Tail(s))
    ELSE IF s[Len(s)] = ChQuote THEN Trim(Slice(s, 0, Len(s) - 1))
    ELSE s

(***************************************************************************)
(* getColumnDataHelper (lines 379-464).  colIdx is the sequence of         *)
(* requested column indices, whereCondition a record [ColIdx, Value] with  *)
(* ColIdx = -1 for no condition.                                           *)
(***************************************************************************)
NoWhere == [ColIdx |-> -1, Value |-> <<>>]

\* lines 407-418: the columns decoded before the loop ends or breaks
RECURSIVE RowLoop(_, _, _, _, _)
RowLoop(rec, whereCondition, k, bodyOffset, rowValues) ==
    IF k > Len(rec.serialTypes)
    THEN [st |-> "ok", rowValues |-> rowValues, isWhereConditionMet |-> TRUE]
    ELSE Bind(getSerialTypeSize(rec.serialTypes[k]), LAMBDA size :
         IF ~SliceInRange(rec.data, bodyOffset, bodyOffset + size)
         THEN [st |-> "panic", rowValues |-> rowValues, isWhereConditionMet |-> TRUE]
         ELSE Bind(processSerialType(rec.serialTypes[k],
                                     Slice(rec.data, bodyOffset, bodyOffset + size)),
                   LAMBDA strValue :
              IF whereCondition.ColIdx # -1 /\ k - 1 = whereCondition.ColIdx
                 /\ strValue # whereCondition.Value
              THEN [st |-> "ok", rowValues |-> Append(rowValues, strValue),
                    isWhereConditionMet |-> FALSE]
              ELSE RowLoop(rec, whereCondition, k + 1, bodyOffset + size,
                           Append(rowValues, strValue))))

\* lines 421-428: the requested columns of one row, joined by "|"
RECURSIVE ProjectLoop(_, _, _, _)
ProjectLoop(rowValues, colIdx, i, dataForCol) ==
    IF i >= Len(colIdx) THEN Ok(dataForCol)
    ELSE Bind(colIdx[i + 1], LAMBDA idx :
         IF idx >= 0 /\ idx <= Len(rowValues)
         THEN IF idx = Len(rowValues) THEN Panic
              ELSE ProjectLoop(rowValues, colIdx, i + 1,
                               dataForCol \o (IF i > 0 THEN <<ChBar>> ELSE <<>>)
                                          \o rowValues[idx + 1])
         ELSE ProjectLoop(rowValues, colIdx, i + 1, dataForCol))

\* lines 419-433: the entries a decoded row adds
RowEntries(rec, row, colIdx) ==
    IF row.st # "ok" THEN Panic
    ELSE IF Len(row.rowValues) = 0 THEN Panic
    ELSE IF ~row.isWhereConditionMet THEN Ok(<<>>)
    ELSE Bind(ProjectLoop([row.rowValues EXCEPT ![1] = FormatInt(rec.rowId)], colIdx, 0, <<>>),
              LAMBDA proj :
         IF proj.st # "ok" THEN proj
         ELSE IF proj.out # <<>> THEN Ok(<<proj.out>>)
         ELSE Ok(<<>>))

\* lines 403-433: one leaf cell; out is the entries the row adds
LeafRow(f, cellContentOffset, colIdx, whereCondition) ==
    Bind(processLeafCellRecord(f, cellContentOffset), LAMBDA rec :
    IF rec.st # "ok" THEN Diverge
    ELSE RowEntries(rec, RowLoop(rec, whereCondition, 1, rec.bodyOffset, <<>>), colIdx))

RECURSIVE getColumnDataHelper(_, _, _, _, _, _)
getColumnDataHelper(f, pageNumber, pageSize, colIdx, whereCondition, path) ==
    LET pageOffset == PageOffset(pageNumber, pageSize)
        RECURSIVE Cells(_, _, _)
        Cells(cellCount, i, columnData) ==
            IF ~(i < cellCount) THEN Ok(columnData)
            ELSE Bind(LeafRow(f, CellContentOffset(f, pageNumber, pageOffset, 8, i),
                              colIdx, whereCondition),
                      LAMBDA r :
                 IF r.st # "ok" THEN r ELSE Cells(cellCount, i + 1, columnData \o r.out))
        RECURSIVE Kids(_, _)
        Kids(kids, columnData) ==
            IF kids = <<>> THEN Ok(columnData)
            ELSE Bind(getColumnDataHelper(f, Head(kids), pageSize, colIdx,
                                          whereCondition, path \cup {pageNumber}),
                      LAMBDA r :
                 IF r.st # "ok" THEN r ELSE Kids(Tail(kids), columnData \o r.out))
    IN IF pageNumber \in path THEN Diverge
       ELSE Bind(PageType(f, pageOffset), LAMBDA type :
            IF type = LeafPage THEN Cells(getCellCount(f, pageOffset), 0, <<>>)
            ELSE IF type = InteriorPage
                 THEN Kids(ChildPages(f, pageNumber, pageOffset), <<>>)
            ELSE Ok(<<>>))

(***************************************************************************)
(* readDataFromMultipleColumns (lines 466-573).                            *)
(***************************************************************************)
\* lines 486-508: the first row of the leaf with 5 or more columns, column 0
\* "table" and column 2 tableName; rootPage 0 and createStatement "" if none
NotFound(st) == [st |-> st, rootPage |-> 0, createStatement |-> <<>>]

RECURSIVE FindTable(_, _, _, _, _, _)
FindTable(f, pageNumber, pageOffset, cellCount, tableName, i) ==
    IF ~(i < cellCount) THEN NotFound("ok")
    ELSE Bind(processLeafCellRecord(f, CellContentOffset(f, pageNumber, pageOffset, 8, i)),
              LAMBDA rec :
         IF rec.st # "ok" THEN NotFound("diverge") ELSE
         Bind(DecodeColumns(rec.data, rec.serialTypes, 1, rec.bodyOffset), LAMBDA cols :
         IF cols.st # "ok" THEN NotFound("panic")
         ELSE IF Len(cols.out) >= 5 /\ cols.out[1] = StrTable /\ cols.out[3] = tableName
              THEN [st |-> "ok", rootPage |-> Atoi(cols.out[4]),
                    createStatement |-> cols.out[5]]
         ELSE FindTable(f, pageNumber, pageOffset, cellCount, tableName, i + 1)))

\* the first whitespace-delimited word of each column definition,
\* <<>> for a definition without words
FirstWords(columnDefs) ==
    [d \in 1..Len(columnDefs) |->
        LET words == Fields(columnDefs[d]) IN IF words = <<>> THEN <<>> ELSE words[1]]

\* lines 521-531: for each requested name the first column so named;
\* a name that no column has adds nothing
RECURSIVE ColIdxs(_, _)
ColIdxs(firstWords, colNames) ==
    IF colNames = <<>> THEN <<>>
    ELSE LET hits == {d \in 1..Len(firstWords) :
                          firstWords[d] # <<>> /\ firstWords[d] = Head(colNames)}
         IN (IF hits = {} THEN <<>>
             ELSE <<(CHOOSE d \in hits : \A e \in hits : d <= e) - 1>>)
            \o ColIdxs(firstWords, Tail(colNames))

\* lines 532-539: words[0] is read without a length check
RECURSIVE WhereLoop(_, _, _, _)
WhereLoop(firstWords, whereCol, whereValue, d) ==
    IF d > Len(firstWords) THEN Ok(NoWhere)
    ELSE IF firstWords[d] = <<>> THEN Panic
    ELSE IF firstWords[d] = whereCol THEN Ok([ColIdx |-> d - 1, Value |-> whereValue])
    ELSE WhereLoop(firstWords, whereCol, whereValue, d + 1)

\* lines 510-513: the column and the literal of the WHERE words
WhereCol(rawWhereConditions) ==
    IF Len(rawWhereConditions) # 0 THEN rawWhereConditions[1] ELSE <<>>

WhereValue(rawWhereConditions) ==
    IF Len(rawWhereConditions) # 0
    THEN Trim(Join(Slice(rawWhereConditions, 2, Len(rawWhereConditions))))
    ELSE <<>>

\* lines 517-520: the column definitions between the first "(" and the
\* last ")" of the creation statement
ColumnBounds(createStatement) ==
    [open |-> Index(createStatement, ChOpenParen) + 1,
     close |-> LastIndex(createStatement, ChCloseParen)]

\* lines 509-544: from the schema row found to the rows of the table
ResolveAndSelect(f, pageSize, found, colNames, rawWhereConditions) ==
    IF Len(rawWhereConditions) = 1 THEN Panic ELSE
    Bind(ColumnBounds(found.createStatement), LAMBDA part :
    IF ~SliceInRange(found.createStatement, part.open, part.close) THEN Panic ELSE
    Bind(FirstWords(Split(Slice(found.createStatement, part.open, part.close), ChComma)),
         LAMBDA firstWords :
    Bind(WhereLoop(firstWords, WhereCol(rawWhereConditions),
                   WhereValue(rawWhereConditions), 1),
         LAMBDA whereCondition :
    IF whereCondition.st # "ok" THEN Panic
    ELSE getColumnDataHelper(f, found.rootPage, pageSize, ColIdxs(firstWords, colNames),
                             whereCondition.out, {}))))

RECURSIVE readDataFromMultipleColumns(_, _, _, _, _, _, _)
readDataFromMultipleColumns(f, pageNumber, pageSize, tableName, colNames, rawWhereConditions, path) ==
    LET pageOffset == PageOffset(pageNumber, pageSize)
        RECURSIVE Kids(_, _)
        Kids(kids, columnData) ==
            IF kids = <<>> THEN Ok(columnData)
            ELSE Bind(readDataFromMultipleColumns(
                          f, Head(kids), pageSize, tableName, colNames,
                          rawWhereConditions, path \cup {pageNumber}),
                      LAMBDA r :
                 IF r.st # "ok" THEN r ELSE Kids(Tail(kids), columnData \o r.out))
    IN IF pageNumber \in path THEN Diverge
       ELSE Bind(PageType(f, pageOffset), LAMBDA type :
            IF type = LeafPage
            THEN Bind(FindTable(f, pageNumber, pageOffset, getCellCount(f, pageOffset),
                                tableName, 0),
                      LAMBDA found :
                 IF found.st = "diverge" THEN Diverge
                 ELSE IF found.st = "panic" THEN Panic
                 ELSE ResolveAndSelect(f, pageSize, found, colNames, rawWhereConditions))
            ELSE IF type = InteriorPage
                 THEN Kids(ChildPages(f, pageNumber, pageOffset), <<>>)
            ELSE Ok(<<>>))

(***************************************************************************)
(* main (lines 620-750): the page size is the big-endian 16-bit number at  *)
(* bytes 16-17 of the 100-byte header buffer (zero where the file ends     *)
(* early).  A command is the sequence of its whitespace-separated words    *)
(* (strings.Fields(command), line 703).                                    *)
(***************************************************************************)
ReadPageSize(f) ==
    LET b(o) == IF o < Len(f) THEN f[o + 1] ELSE 0 IN b(16) * 256 + b(17)

WordSelect == <<115, 101, 108, 101, 99, 116>>
WordFrom == <<102, 114, 111, 109>>
WordWhere == <<119, 104, 101, 114, 101>>
WordCount == <<99, 111, 117, 110, 116, 40, 42, 41>>

\* strings.ToLower on ASCII text
ToLower(s) == [i \in 1..Len(s) |-> IF s[i] \in 65..90 THEN s[i] + 32 ELSE s[i]]

\* lines 704-713: the index of the last word that is "from" / "where"
LastWordIndex(words, w, default) ==
    LET hits == {i \in 0..(Len(words) - 1) : ToLower(words[i + 1]) = w}
    IN IF hits = {} THEN default ELSE CHOOSE i \in hits : \A j \in hits : j <= i

\* strings.TrimRight(word, ",")
RECURSIVE TrimRightComma(_)
TrimRightComma(w) ==
    IF w # <<>> /\ w[Len(w)] = ChComma THEN TrimRightComma(Slice(w, 0, Len(w) - 1)) ELSE w

\* lines 725-734: the words between SELECT and FROM, commas stripped from
\* all but the last
ColNames(words, fromWordIndex) ==
    [k \in 1..(fromWordIndex - 1) |->
        IF k # fromWordIndex - 1 THEN TrimRightComma(words[k + 1]) ELSE words[k + 1]]

\* lines 703-748: the SQL branch of main on a tokenised command of at
\* least two words with a word after FROM
RunSql(f, words) ==
    LET pageSize == ReadPageSize(f)
        fromWordIndex == LastWordIndex(words, WordFrom, 0)
        whereWordIndex == LastWordIndex(words, WordWhere, -1)
        tableName == words[fromWordIndex + 2]
        whereConditions ==
            IF whereWordIndex # -1 THEN Slice(words, whereWordIndex + 1, Len(words)) ELSE <<>>
    IN IF ToLower(words[1]) # WordSelect THEN [kind |-> "none", st |-> "ok", out |-> <<>>]
       ELSE IF ToLower(words[2]) = WordCount
            THEN [kind |-> "count"] @@ getCountInATable(f, 1, pageSize, tableName, {})
       ELSE [kind |-> "select"]
            @@ readDataFromMultipleColumns(f, 1, pageSize, tableName,
                                           ColNames(words, fromWordIndex), whereConditions, {})

(***************************************************************************)
(* The database files the program is run on.                               *)
(*                                                                         *)
(* A file is described by its pages (page p is pages[p]):                  *)
(*   [kind |-> "leaf", rows |-> <<row, ...>>]                              *)
(*   [kind |-> "interior", kids |-> <<page, ...>>, right |-> page]         *)
(*   [kind |-> "other", tag |-> byte, rows |-> <<row, ...>>]               *)
(* and a row by [rowid, cols, hdrExtra, ptrBad]: cols is the sequence of   *)
(* [t |-> serial type, b |-> value bytes]; hdrExtra is added to the        *)
(* header size the record declares; ptrBad makes the cell pointer 0xFFFF,  *)
(* past the end of the file.  A page of kind "other" is laid out as a leaf *)
(* page is (as the leaf pages of an index are) under another type byte.    *)
(* Encode turns a description into the bytes of the file, in the SQLite    *)
(* file format.                                                            *)
(***************************************************************************)
PageSize == 512
MaxRows == 3

StrIndex == <<105, 110, 100, 101, 120>>
NameT == <<116>>
NameU == <<117>>
NameZ == <<122>>
NameTi == <<116, 105>>
ColId == <<105, 100>>
ColName == <<110, 97, 109, 101>>
ColQty == <<113, 116, 121>>
ColK == <<107>>
WordEq == <<61>>
TextAb == <<97, 98>>
SqlT == <<67, 82, 69, 65, 84, 69, 32, 84, 65, 66, 76, 69, 32, 116, 32, 40, 105, 100, 32,
          105, 110, 116, 101, 103, 101, 114, 32, 112, 114, 105, 109, 97, 114, 121, 32,
          107, 101, 121, 44, 32, 110, 97, 109, 101, 32, 116, 101, 120, 116, 44, 32, 113,
          116, 121, 32, 105, 110, 116, 101, 103, 101, 114, 41>>
SqlU == <<67, 82, 69, 65, 84, 69, 32, 84, 65, 66, 76, 69, 32, 117, 32, 40, 107, 32, 116,
          101, 120, 116, 41>>
SqlI == <<67, 82, 69, 65, 84, 69, 32, 73, 78, 68, 69, 88, 32, 116, 105, 32, 79, 78, 32,
          116, 32, 40, 110, 97, 109, 101, 41>>

Text(b) == [t |-> 13 + 2 * Len(b), b |-> b]
Int8(n) == [t |-> 1, b |-> <<n>>]
Null == [t |-> 0, b |-> <<>>]
Row(rowid, cols) == [rowid |-> rowid, cols |-> cols, hdrExtra |-> 0, ptrBad |-> FALSE]

U16(n) == <<n \div 256, n % 256>>
U32(n) == <<0, 0>> \o U16(n)
EncodeVarint(n) == IF n < 128 THEN <<n>> ELSE <<128 + (n \div 128), n % 128>>

EncodeCell(row) ==
    LET types == Flatten([k \in 1..Len(row.cols) |-> EncodeVarint(row.cols[k].t)])
        body == Flatten([k \in 1..Len(row.cols) |-> row.cols[k].b])
        payload == <<1 + Len(types) + row.hdrExtra>> \o types \o body
    IN EncodeVarint(Len(payload)) \o EncodeVarint(row.rowid) \o payload

RECURSIVE SumLen(_, _)
SumLen(cells, k) == IF k = 0 THEN 0 ELSE Len(cells[k]) + SumLen(cells, k - 1)

FileHeader == [i \in 1..FileHeaderSize |-> IF i = 17 THEN PageSize \div 256
                                           ELSE IF i = 18 THEN PageSize % 256 ELSE 0]

EncodePage(pd, p) ==
    LET prefix == IF p = 1 THEN FileHeader ELSE <<>>
        n == IF pd.kind = "interior" THEN Len(pd.kids) ELSE Len(pd.rows)
        cells == IF pd.kind = "interior" THEN [k \in 1..n |-> U32(pd.kids[k]) \o <<1>>]
                 ELSE [k \in 1..n |-> EncodeCell(pd.rows[k])]
        hdrLen == IF pd.kind = "interior" THEN 12 ELSE 8
        cellStart == Len(prefix) + hdrLen + 2 * n
        pointers == Flatten([k \in 1..n |->
                        IF pd.kind # "interior" /\ pd.rows[k].ptrBad THEN U16(65535)
                        ELSE U16(cellStart + SumLen(cells, k - 1))])
        header == IF pd.kind = "interior"
                  THEN <<InteriorPage, 0, 0>> \o U16(n) \o U16(cellStart) \o <<0>>
                       \o U32(pd.right)
                  ELSE <<IF pd.kind = "leaf" THEN LeafPage ELSE pd.tag, 0, 0>>
                       \o U16(n) \o U16(cellStart) \o <<0>>
        used == prefix \o header \o pointers \o Flatten(cells)
    IN used \o Zeros(PageSize - Len(used))

Encode(fx) == Flatten([p \in 1..Len(fx.pages) |-> EncodePage(fx.pages[p], p)])

(***************************************************************************)
(* The files: a schema of one of SchemaVariants over table t (id integer   *)
(* primary key, name text, qty integer), table u (k text) and index ti on  *)
(* t; table t is a tree of one of Shapes holding rows 1..n, n <= MaxRows,  *)
(* each with a name of Names; and the damaged files of Damages.  The last  *)
(* page of a file is the root page of index ti, of a type that is neither  *)
(* 0x0D nor 0x05; schema "o|ut" and damage "otherchild" make it the first  *)
(* child of an interior page of the schema tree / of table t's tree.       *)
(* Damages "shortrow" and "emptyrow" are files whose table t has a row     *)
(* that stores one column, or none, of the three the table declares.       *)
(***************************************************************************)
Leaf(rows) == [kind |-> "leaf", rows |-> rows]
Interior(kids, right) == [kind |-> "interior", kids |-> kids, right |-> right]
Other(tag, rows) == [kind |-> "other", tag |-> tag, rows |-> rows]

Names == {<<>>, TextAb}
Shapes == {"leaf", "two", "deep"}
SchemaVariants == {"t", "ut", "it", "ti", "u|t", "t|u", "o|ut"}
Damages ==
    {"badptr", "badptrschema", "bigheader", "bigheaderschema", "longtext", "cycle", "otherchild",
     "shortrow", "emptyrow"}

\* the row of table t with row-id r: the integer primary key is stored as NULL
TRow(r, name) == Row(r, <<Null, Text(name), Int8(7)>>)

SchemaRow(rowid, type, name, tblName, rootPage, sql) ==
    Row(rowid, <<Text(type), Text(name), Text(tblName), Int8(rootPage), Text(sql)>>)

\* rows a..b of rows, as far as they exist
Part(rows, a, b) ==
    LET e == IF b < Len(rows) THEN b ELSE Len(rows)
    IN [i \in 1..(e - a + 1) |-> rows[a + i - 1]]

\* the pages of table t's tree rooted at page root
TreePages(shape, rows, root) ==
    LET n == Len(rows)
        h == (n + 1) \div 2
    IN CASE shape = "leaf" -> <<Leaf(rows)>>
         [] shape = "two" ->
                <<Interior(<<root + 1>>, root + 2),
                  Leaf(Part(rows, 1, h)), Leaf(Part(rows, h + 1, n))>>
         [] shape = "deep" ->
                <<Interior(<<root + 1>>, root + 4), Interior(<<root + 2>>, root + 3),
                  Leaf(Part(rows, 1, 1)), Leaf(Part(rows, 2, h)),
                  Leaf(Part(rows, h + 1, n))>>

MakeFixture(schema, shape, rows, damage) ==
    LET rootT == IF schema \in {"u|t", "t|u"} THEN 4 ELSE IF schema = "o|ut" THEN 3 ELSE 2
        tree == TreePages(shape, rows, rootT)
        rootU == rootT + Len(tree)
        rootI == rootU + 1
        et == SchemaRow(1, StrTable, NameT, NameT, rootT, SqlT)
        eu == SchemaRow(2, StrTable, NameU, NameU, rootU, SqlU)
        ei == SchemaRow(3, StrIndex, NameTi, NameT, rootI, SqlI)
        schemaPages ==
            CASE schema = "t" -> <<Leaf(<<et>>)>>
              [] schema = "ut" -> <<Leaf(<<eu, et>>)>>
              [] schema = "it" -> <<Leaf(<<ei, et>>)>>
              [] schema = "ti" -> <<Leaf(<<et, ei>>)>>
              [] schema = "u|t" -> <<Interior(<<2>>, 3), Leaf(<<eu>>), Leaf(<<et>>)>>
              [] schema = "t|u" -> <<Interior(<<2>>, 3), Leaf(<<et>>), Leaf(<<eu>>)>>
              [] schema = "o|ut" -> <<Interior(<<rootI>>, 2), Leaf(<<eu, et>>)>>
    IN [schema |-> schema, shape |-> shape, damage |-> damage,
        pages |-> schemaPages \o tree
                  \o <<Leaf(<<Row(1, <<Text(<<120>>)>>)>>),
                       Other(10, <<Row(9, <<Text(<<121>>)>>)>>)>>]

\* a damaged copy of the file "ut" / "two" with three rows named ab
Damaged(damage) ==
    LET base == MakeFixture("ut", "two", <<TRow(1, TextAb), TRow(2, TextAb), TRow(3, TextAb)>>,
                            damage)
        pages == base.pages
        \* row k of leaf page p, changed
        With(p, k, row) == [pages EXCEPT ![p] = Leaf([pages[p].rows EXCEPT ![k] = row])]
        tr == pages[3].rows[2]
        sr == pages[1].rows[1]
    IN [base EXCEPT !.pages =
          CASE damage = "badptr" -> With(3, 2, [tr EXCEPT !.ptrBad = TRUE])
            [] damage = "badptrschema" -> With(1, 1, [sr EXCEPT !.ptrBad = TRUE])
            [] damage = "bigheader" -> With(3, 2, [tr EXCEPT !.hdrExtra = 20])
            [] damage = "bigheaderschema" -> With(1, 1, [sr EXCEPT !.hdrExtra = 100])
            [] damage = "longtext" ->
                  With(3, 2, [tr EXCEPT !.cols[2] = [t |-> 13 + 2 * 5, b |-> <<97>>],
                                        !.cols[3] = [t |-> 0, b |-> <<>>]])
            [] damage = "cycle" -> [pages EXCEPT ![2] = Interior(<<3, 2>>, 4)]
            [] damage = "otherchild" -> [pages EXCEPT ![2] = Interior(<<6, 3>>, 4)]
            [] damage = "shortrow" -> With(3, 2, [tr EXCEPT !.cols = <<Null>>])
            [] damage = "emptyrow" -> With(3, 2, [tr EXCEPT !.cols = <<>>])]

RowSeqs ==
    UNION {[1..n -> Names] : n \in 0..MaxRows}

Fixtures ==
    {MakeFixture(schema, shape, [r \in 1..Len(names) |-> TRow(r, names[r])], "none") :
        schema \in SchemaVariants, shape \in Shapes, names \in RowSeqs}
    \cup {Damaged(d) : d \in Damages}

(***************************************************************************)
(* The commands.                                                           *)
(***************************************************************************)
ColLists == {<<ColName>>, <<ColId>>, <<ColId, ColName>>, <<ColName, ColId>>, <<ColK>>}
Wheres == {<<>>, <<ColId, WordEq, <<50>>>>, <<ColName, WordEq, <<39, 97, 98, 39>>>>}
TableNames == {NameT, NameU, NameZ}

\* SELECT c1, c2 FROM tableName [WHERE col = literal], tokenised
SelectCommand(cols, tableName, where) ==
    <<WordSelect>>
    \o [k \in 1..Len(cols) |-> IF k < Len(cols) THEN Append(cols[k], ChComma) ELSE cols[k]]
    \o <<WordFrom, tableName>>
    \o (IF where = <<>> THEN <<>> ELSE <<WordWhere>> \o where)

CountCommand(tableName) == <<WordSelect, WordCount, WordFrom, tableName>>

(***************************************************************************)
(* The program: one run of one command on one file.                        *)
(***************************************************************************)
NoResult == [kind |-> "none", st |-> "ok", out |-> <<>>]
NoCommand == [op |-> "none", table |-> <<>>, cols |-> <<>>, where |-> <<>>]

NoArg == [fn |-> "none"]

\* the bytes of the database file the program is run on
File == Encode(fixture)

Init ==
    /\ fixture \in Fixtures
    /\ pc = "start"
    /\ cmd = NoCommand
    /\ result = NoResult
    /\ arg = NoArg
    /\ ret = NoArg

\* .dbinfo (lines 625-652)
DbInfo ==
    /\ pc = "start"
    /\ pc' = "done"
    /\ cmd' = [NoCommand EXCEPT !.op = "dbinfo"]
    /\ result' = Bind(File, LAMBDA f :
                      [kind |-> "dbinfo"] @@ countRecordsInBTree(f, 1, ReadPageSize(f), {}))
    /\ UNCHANGED <<fixture, arg, ret>>

\* .dbinfo of unnamed/part_000 (lines 271-298)
DbInfoPart000 ==
    /\ pc = "start"
    /\ pc' = "done"
    /\ cmd' = [NoCommand EXCEPT !.op = "dbinfo_part000"]
    /\ result' = Bind(File, LAMBDA f :
                      [kind |-> "dbinfo"] @@ getNumTablesInBTree(f, 1, ReadPageSize(f), {}))
    /\ UNCHANGED <<fixture, arg, ret>>

\* .tables (lines 654-681)
Tables ==
    /\ pc = "start"
    /\ pc' = "done"
    /\ cmd' = [NoCommand EXCEPT !.op = "tables"]
    /\ result' = Bind(File, LAMBDA f :
                      [kind |-> "tables"] @@ getTablesNamesInBTree(f, 1, ReadPageSize(f), {}))
    /\ UNCHANGED <<fixture, arg, ret>>

\* SELECT count(*) FROM tableName (lines 684-720)
CountRows ==
    /\ pc = "start"
    /\ \E tableName \in TableNames :
          /\ cmd' = [NoCommand EXCEPT !.op = "count", !.table = tableName]
          /\ result' = RunSql(File, CountCommand(tableName))
    /\ pc' = "done"
    /\ UNCHANGED <<fixture, arg, ret>>

\* SELECT cols FROM tableName [WHERE col = literal] (lines 684-746)
SelectColumns ==
    /\ pc = "start"
    /\ \E tableName \in TableNames, cols \in ColLists, where \in Wheres :
          /\ cmd' = [op |-> "select", table |-> tableName, cols |-> cols, where |-> where]
          /\ result' = RunSql(File, SelectCommand(cols, tableName, where))
    /\ pc' = "done"
    /\ UNCHANGED <<fixture, arg, ret>>

Next == DbInfo \/ DbInfoPart000 \/ Tables \/ CountRows \/ SelectColumns

Spec == Init /\ [][Next]_vars

(***************************************************************************)
(* What a file holds, read from its description (not from its bytes):      *)
(* the reference that the results of the program are compared with.        *)
(***************************************************************************)
WellFormed(fx) == fx.damage = "none"

\* the rows under page p in in-order: a leaf's rows in cell order, an
\* interior page's children left to right, the right-most child last
RECURSIVE RefRows(_, _)
RefRows(fx, p) ==
    LET pd == fx.pages[p] IN
    IF p \notin 1..Len(fx.pages) THEN <<>>
    ELSE IF pd.kind = "leaf" THEN pd.rows
    ELSE IF pd.kind = "interior"
         THEN Flatten([k \in 1..Len(pd.kids) |-> RefRows(fx, pd.kids[k])])
              \o RefRows(fx, pd.right)
    ELSE <<>>

\* the sum of the cell counts of the leaf pages under page p
RECURSIVE RefLeafCells(_, _)
RefLeafCells(fx, p) ==
    LET pd == fx.pages[p]
        RECURSIVE Sum(_)
        Sum(k) == IF k = 0 THEN 0 ELSE RefLeafCells(fx, pd.kids[k]) + Sum(k - 1)
    IN IF p \notin 1..Len(fx.pages) THEN 0
       ELSE IF pd.kind = "leaf" THEN Len(pd.rows)
       ELSE IF pd.kind = "interior" THEN Sum(Len(pd.kids)) + RefLeafCells(fx, pd.right)
       ELSE 0

\* the rows whose cell can be read
Readable(rows) == SelectSeq(rows, LAMBDA r : ~r.ptrBad)

\* the value a column holds, as text
RefValue(col) ==
    IF col.t = 0 THEN StrNULL ELSE IF col.t = 1 THEN FormatInt(col.b[1]) ELSE col.b

\* a row as the query sees it: position 0 is the row-id
RefRowValues(row) ==
    [k \in 1..Len(row.cols) |-> IF k = 1 THEN FormatInt(row.rowid) ELSE RefValue(row.cols[k])]

SchemaEntries(fx) == Readable(RefRows(fx, 1))

\* the schema rows of type "table" named tableName, in traversal order
TableEntries(fx, tableName) ==
    SelectSeq(SchemaEntries(fx),
              LAMBDA r : r.cols[1].b = StrTable /\ r.cols[3].b = tableName)

\* whether a schema row of any type carries the name
Named(fx, tableName) ==
    \E k \in 1..Len(SchemaEntries(fx)) : SchemaEntries(fx)[k].cols[3].b = tableName

HasTable(fx, tableName) == TableEntries(fx, tableName) # <<>>

\* the root page of the first schema row of type "table" named tableName
TableRoot(fx, tableName) == TableEntries(fx, tableName)[1].cols[4].b[1]

\* the first schema row that carries the name is the table's own row
FirstNamedIsTable(fx, tableName) ==
    /\ HasTable(fx, tableName)
    /\ LET named == SelectSeq(SchemaEntries(fx), LAMBDA r : r.cols[3].b = tableName)
       IN named[1].cols[1].b = StrTable

SchemaIsOneLeaf(fx) == fx.pages[1].kind = "leaf"

\* the declared columns of the tables of the files
Layout(tableName) ==
    IF tableName = NameT THEN <<ColId, ColName, ColQty>>
    ELSE IF tableName = NameU THEN <<ColK>>
    ELSE <<>>

Declared(tableName, col) == \E k \in 1..Len(Layout(tableName)) : Layout(tableName)[k] = col

Position(tableName, col) == CHOOSE k \in 1..Len(Layout(tableName)) : Layout(tableName)[k] = col

AllDeclared(tableName, cols) == \A k \in 1..Len(cols) : Declared(tableName, cols[k])

\* the requested columns of a row in requested order, joined by "|"
RECURSIVE RefEntry(_, _, _)
RefEntry(values, tableName, cols) ==
    IF cols = <<>> THEN <<>>
    ELSE IF Len(cols) = 1 THEN values[Position(tableName, cols[1])]
    ELSE values[Position(tableName, cols[1])] \o <<ChBar>>
         \o RefEntry(values, tableName, Tail(cols))

\* one entry for each of rows
RefEntries(rows, tableName, cols) ==
    [k \in 1..Len(rows) |-> RefEntry(RefRowValues(rows[k]), tableName, cols)]

TableRows(fx, tableName) == RefRows(fx, TableRoot(fx, tableName))

Done(op) == pc = "done" /\ cmd.op = op

(***************************************************************************)
(* The claims.                                                             *)
(***************************************************************************)

\* C1: a SELECT without WHERE returns one entry for each leaf row of the
\* table's tree, the requested columns in requested order joined by "|",
\* also for a row whose only requested column is the empty text.
C1_OneEntryPerRow ==
    (/\ Done("select") /\ cmd.where = <<>>
     /\ WellFormed(fixture) /\ SchemaIsOneLeaf(fixture)
     /\ HasTable(fixture, cmd.table) /\ AllDeclared(cmd.table, cmd.cols))
    => /\ result.st = "ok"
       /\ Len(result.out) = RefLeafCells(fixture, TableRoot(fixture, cmd.table))
       /\ result.out = RefEntries(TableRows(fixture, cmd.table), cmd.table, cmd.cols)

\* the rows of `rows` whose value at the WHERE column equals the literal
Matching(rows, tableName, where) ==
    SelectSeq(rows, LAMBDA r :
        RefRowValues(r)[Position(tableName, where[1])] = Trim(where[3]))

\* C2: a SELECT with WHERE on column k returns exactly the rows whose value
\* at position k equals the literal as text, position 0 being the row-id;
\* WHERE id = 2 returns the row with row-id 2.
C2_WhereReturnsMatchingRows ==
    (/\ Done("select") /\ cmd.where # <<>>
     /\ WellFormed(fixture) /\ SchemaIsOneLeaf(fixture)
     /\ HasTable(fixture, cmd.table) /\ AllDeclared(cmd.table, cmd.cols)
     /\ Declared(cmd.table, cmd.where[1])
     /\ \A k \in 1..Len(TableRows(fixture, cmd.table)) :
            TableRows(fixture, cmd.table)[k].cols[2].b # <<>>)
    => /\ result.st = "ok"
       /\ result.out = RefEntries(Matching(TableRows(fixture, cmd.table), cmd.table, cmd.where),
                                  cmd.table, cmd.cols)

\* C3: the count of a table is the sum of the cell counts of the leaf pages
\* under its root page, for a single leaf and for interior pages of any
\* depth, the right-most child included; so is the record count of .dbinfo
\* for the schema tree.
C3_CountIsLeafCellSum ==
    /\ (Done("count") /\ WellFormed(fixture) /\ FirstNamedIsTable(fixture, cmd.table))
       => /\ result.st = "ok"
          /\ result.out = RefLeafCells(fixture, TableRoot(fixture, cmd.table))
    /\ (Done("dbinfo") /\ WellFormed(fixture))
       => /\ result.st = "ok"
          /\ result.out = RefLeafCells(fixture, 1)

C3_Witness ==
    /\ Done("count") /\ WellFormed(fixture) /\ FirstNamedIsTable(fixture, cmd.table)
    /\ fixture.shape = "deep" /\ fixture.pages[1].kind = "interior"
    /\ result.st = "ok" /\ result.out = MaxRows

\* C4: the rows come out in in-order sequence: a leaf's cells in ascending
\* cell index, an interior page's children left to right and the right-most
\* child last, every row once, in ascending row-id; for the rows of a table
\* (SELECT with the row-id among the columns) and for the names .tables lists.
C4_WalkIsInOrder ==
    /\ (/\ Done("select") /\ cmd.where = <<>>
        /\ WellFormed(fixture) /\ SchemaIsOneLeaf(fixture)
        /\ HasTable(fixture, cmd.table) /\ AllDeclared(cmd.table, cmd.cols)
        /\ \E k \in 1..Len(cmd.cols) : Position(cmd.table, cmd.cols[k]) = 1)
       => /\ result.st = "ok"
          /\ result.out = RefEntries(TableRows(fixture, cmd.table), cmd.table, cmd.cols)
          /\ \A k \in 1..(Len(TableRows(fixture, cmd.table)) - 1) :
                TableRows(fixture, cmd.table)[k].rowid
                    < TableRows(fixture, cmd.table)[k + 1].rowid
    /\ (Done("tables") /\ WellFormed(fixture))
       => /\ result.st = "ok"
          /\ result.out = [k \in 1..Len(RefRows(fixture, 1)) |-> RefRows(fixture, 1)[k].cols[3].b]

C4_Witness ==
    /\ Done("select") /\ cmd.where = <<>> /\ cmd.cols = <<ColId>> /\ cmd.table = NameT
    /\ WellFormed(fixture) /\ fixture.shape = "deep"
    /\ result.st = "ok" /\ result.out = [k \in 1..MaxRows |-> FormatInt(k)]

\* C5: for a table name that no schema row carries, the count is 0 and the
\* SELECT result is empty, and neither fails.
C5_MissingTableIsEmpty ==
    (/\ pc = "done" /\ cmd.op \in {"count", "select"}
     /\ WellFormed(fixture) /\ ~Named(fixture, cmd.table))
    => /\ result.st = "ok"
       /\ result.out = IF cmd.op = "count" THEN 0 ELSE <<>>

\* C6: with an interior schema root and several schema leaves, a SELECT
\* returns the rows of the first matching schema entry once, whichever leaf
\* holds it; the other leaves add nothing and cause no failure.
C6_FirstMatchAcrossSchemaLeaves ==
    (/\ Done("select") /\ cmd.where = <<>>
     /\ WellFormed(fixture) /\ fixture.pages[1].kind = "interior"
     /\ HasTable(fixture, cmd.table) /\ AllDeclared(cmd.table, cmd.cols)
     /\ \E k \in 1..Len(cmd.cols) : Position(cmd.table, cmd.cols[k]) = 1)
    => /\ result.st = "ok"
       /\ result.out = RefEntries(TableRows(fixture, cmd.table), cmd.table, cmd.cols)

\* C7: the count is taken at the root page of the first schema row of type
\* "table" with the table name; an earlier row of another type with the
\* same table name does not decide the root page.
C7_CountResolvesTheTableRow ==
    (Done("count") /\ WellFormed(fixture) /\ HasTable(fixture, cmd.table))
    => /\ result.st = "ok"
       /\ result.out = RefLeafCells(fixture, TableRoot(fixture, cmd.table))

\* C8: a cell that cannot be read adds nothing and the walk goes on with
\* the other cells: no command aborts, .tables lists the names of the
\* readable schema rows and a SELECT returns the readable rows.
C8_UnreadableCellIsSkipped ==
    (pc = "done" /\ fixture.damage \in {"badptr", "badptrschema"})
    => /\ result.st = "ok"
       /\ cmd.op = "tables"
          => result.out = [k \in 1..Len(SchemaEntries(fixture)) |->
                              SchemaEntries(fixture)[k].cols[3].b]
       /\ (/\ cmd.op = "select" /\ cmd.where = <<>>
           /\ HasTable(fixture, cmd.table) /\ AllDeclared(cmd.table, cmd.cols))
          => result.out = RefEntries(Readable(TableRows(fixture, cmd.table)),
                                     cmd.table, cmd.cols)

\* C9: every command terminates on every file.
C9_EveryCommandTerminates == pc = "done" => result.st # "diverge"

\* C10: a text column that declares more bytes than the payload has left
\* decodes to "Invalid String" and the row is still processed: no command
\* fails, and SELECT name FROM t returns the sentinel for that row.
C10_LongTextIsInvalidSentinel ==
    (pc = "done" /\ fixture.damage = "longtext")
    => /\ result.st = "ok"
       /\ (cmd.op = "select" /\ cmd.table = NameT /\ cmd.cols = <<ColName>> /\ cmd.where = <<>>)
          => result.out = <<TextAb, StrInvalidString, TextAb>>

\* the files where a walk meets a page of another type before other pages
OtherPageInTree(fx) == fx.schema = "o|ut" \/ fx.damage = "otherchild"

\* C11: a page whose first byte is neither 0x0D nor 0x05 is an empty
\* subtree for every walker: the record count of .dbinfo, the names of
\* .tables, the count and the rows of a table are those of the other pages
\* of the tree, and no command fails.
C11_UnknownPageIsEmptySubtree ==
    (pc = "done" /\ OtherPageInTree(fixture))
    => /\ cmd.op = "dbinfo"
          => result.st = "ok" /\ result.out = RefLeafCells(fixture, 1)
       /\ cmd.op = "tables"
          => /\ result.st = "ok"
             /\ result.out = [k \in 1..Len(RefRows(fixture, 1)) |->
                                 RefRows(fixture, 1)[k].cols[3].b]
       /\ (cmd.op = "count" /\ FirstNamedIsTable(fixture, cmd.table))
          => /\ result.st = "ok"
             /\ result.out = RefLeafCells(fixture, TableRoot(fixture, cmd.table))
       /\ (/\ cmd.op = "select" /\ cmd.where = <<>>
           /\ HasTable(fixture, cmd.table) /\ AllDeclared(cmd.table, cmd.cols)
           /\ \E k \in 1..Len(cmd.cols) : Position(cmd.table, cmd.cols[k]) = 1)
          => /\ result.st = "ok"
             /\ result.out = RefEntries(TableRows(fixture, cmd.table), cmd.table, cmd.cols)

C11_Witness ==
    /\ Done("select") /\ fixture.damage = "otherchild"
    /\ cmd.table = NameT /\ cmd.cols = <<ColId, ColName>> /\ cmd.where = <<>>
    /\ result.st = "ok" /\ Len(result.out) = 3

(***************************************************************************)
(* The routines run on their own: one call of one routine, its arguments   *)
(* in arg and what it returns in ret.                                      *)
(***************************************************************************)
NoFixture == [schema |-> "none", shape |-> "none", damage |-> "none", pages |-> <<>>]

UnitInit ==
    /\ fixture = NoFixture
    /\ pc = "start"
    /\ cmd = NoCommand
    /\ result = NoResult
    /\ arg = NoArg
    /\ ret = NoArg

MaxShort == 3

\* the int64 values the varints are made of: 0, every power of two, and
\* every value whose bits are all set from some bit down (-1 among them)
OneBit(k) == [i \in 1..64 |-> IF i = k THEN 1 ELSE 0]
OnesFrom(k) == [i \in 1..64 |-> IF i >= k THEN 1 ELSE 0]
Words == {ZeroWord} \cup {OneBit(k) : k \in 1..64} \cup {OnesFrom(k) : k \in 1..64}

\* the 7 bits word[k + 1 .. k + 7] as a number
Septet(word, k) == ByteAt(<<0>> \o Slice(word, k, k + 7), 0)

SignificantBits(word) ==
    IF word = ZeroWord THEN 0
    ELSE 65 - (CHOOSE k \in 1..64 : word[k] = 1 /\ \A j \in 1..(k - 1) : word[j] = 0)

\* the canonical varint of an int64: 7 bits in each of up to 8 bytes, most
\* significant first, the continuation bit on all but the last; a value of
\* more than 56 bits takes 9 bytes, the 9th holding the low 8 bits
CanonicalVarint(word) ==
    LET nbits == SignificantBits(word)
        len == IF nbits > 56 THEN 9 ELSE IF nbits = 0 THEN 1 ELSE (nbits + 6) \div 7
    IN IF len = 9
       THEN [k \in 1..9 |-> IF k < 9 THEN 128 + Septet(word, 7 * (k - 1))
                            ELSE ByteAt(word, 56)]
       ELSE [k \in 1..len |-> (IF k < len THEN 128 ELSE 0)
                              + Septet(word, 64 - 7 * (len - k + 1))]

\* the bytes before and after a varint in the slice it is read from
Paddings == {<<>>, <<255>>, <<129, 0>>}

\* byte slices of any content: short ones, and runs of continuation bytes
\* around the 9-byte window, ended or not by a last byte
VarintData ==
    UNION {[1..n -> {1, 200}] : n \in 0..MaxShort}
    \cup {[i \in 1..n |-> 200] : n \in 7..11}
    \cup {[i \in 1..n |-> IF i = n THEN 1 ELSE 200] : n \in 7..11}

\* readVarint on the canonical varint of a value, inside a slice
ReadCanonicalVarint ==
    /\ pc = "start"
    /\ \E word \in Words, before \in Paddings, after \in Paddings :
          /\ arg' = [fn |-> "readVarint", canonical |-> TRUE, word |-> word,
                     data |-> before \o CanonicalVarint(word) \o after,
                     index |-> Len(before)]
          /\ ret' = readVarint(before \o CanonicalVarint(word) \o after, Len(before))
    /\ pc' = "done"
    /\ UNCHANGED <<fixture, cmd, result>>

\* readVarint on any slice at any index from 0 to past the end
ReadVarint ==
    /\ pc = "start"
    /\ \E data \in VarintData :
          \E index \in 0..(Len(data) + 1) :
             /\ arg' = [fn |-> "readVarint", canonical |-> FALSE, word |-> ZeroWord,
                        data |-> data, index |-> index]
             /\ ret' = readVarint(data, index)
    /\ pc' = "done"
    /\ UNCHANGED <<fixture, cmd, result>>

\* the bytes the values of the columns are made of
ByteSamples == {0, 1, 128, 255}

\* processSerialType on a value of the width of its serial type
ProcessSerialType ==
    /\ pc = "start"
    /\ \E serialType \in 1..5 :
          \E value \in [1..getSerialTypeSize(serialType) -> ByteSamples] :
             /\ arg' = [fn |-> "processSerialType", serialType |-> serialType, value |-> value]
             /\ ret' = processSerialType(serialType, value)
    /\ pc' = "done"
    /\ UNCHANGED <<fixture, cmd, result>>

MaxTag == 40

\* getSerialTypeSize on any tag, negative tags among them
GetSerialTypeSize ==
    /\ pc = "start"
    /\ \E tag \in (0 - MaxTag)..MaxTag :
          /\ arg' = [fn |-> "getSerialTypeSize", tag |-> tag]
          /\ ret' = getSerialTypeSize(tag)
    /\ pc' = "done"
    /\ UNCHANGED <<fixture, cmd, result>>

MaxHeader == 3

\* the bytes of the serial-type region of a record header: one-byte serial
\* types (an 8-bit integer, a text of one byte) and continuation bytes
HeaderBytes == UNION {[1..n -> {1, 15, 129}] : n \in 0..MaxHeader}

\* the bytes of a leaf cell: payload size, row-id, and the payload made of
\* the header size, the serial-type region and the body
CellBytes(rowid, types, body) ==
    EncodeVarint(1 + Len(types) + Len(body)) \o EncodeVarint(rowid)
    \o <<1 + Len(types)>> \o types \o body

\* a body of one byte for each byte of the serial-type region
BodyBytes(types) == [i \in 1..Len(types) |-> 64 + i]

\* processLeafCellRecord on a cell at offset `before` of a file that ends
\* `after` bytes after the cell
ProcessLeafCellRecord ==
    /\ pc = "start"
    /\ \E types \in HeaderBytes, rowid \in {1, 300}, before \in {0, 4}, after \in {0, 9} :
          /\ arg' = [fn |-> "processLeafCellRecord", types |-> types, rowid |-> rowid,
                     body |-> BodyBytes(types), before |-> before, after |-> after]
          /\ ret' = processLeafCellRecord(
                        Zeros(before) \o CellBytes(rowid, types, BodyBytes(types))
                        \o Zeros(after), before)
    /\ pc' = "done"
    /\ UNCHANGED <<fixture, cmd, result>>

UnitNext ==
    \/ ReadCanonicalVarint
    \/ ReadVarint
    \/ ProcessSerialType
    \/ GetSerialTypeSize
    \/ ProcessLeafCellRecord

UnitSpec == UnitInit /\ [][UnitNext]_vars

Called(fn) == pc = "done" /\ arg.fn = fn

\* C12: readVarint on the canonical 1- to 9-byte varint of a value returns
\* that value and the length of the encoding; when the first 8 bytes all
\* have the high bit set, 9 bytes are consumed and the 9th gives 8 bits.
C12_VarintRoundTrip ==
    (Called("readVarint") /\ arg.canonical)
    => /\ ret.value = arg.word
       /\ ret.bytesRead = Len(CanonicalVarint(arg.word))
       /\ (\A i \in 1..8 : arg.data[arg.index + i] >= 128)
          => /\ ret.bytesRead = 9
             /\ ByteAt(ret.value, 56) = arg.data[arg.index + 9]

C12_Witness ==
    /\ Called("readVarint") /\ arg.canonical
    /\ arg.word = OnesFrom(1) /\ arg.index = 2
    /\ ret.bytesRead = 9 /\ ret.value = arg.word

\* the smaller of two numbers
Min(a, b) == IF a < b THEN a ELSE b

\* C13: readVarint reads no index outside the slice: it returns (0, 0) for
\* an index at or past the end, and otherwise a byte count from 1 to
\* min(9, len - index), the bytes read being those from index on.
C13_VarintStaysInSlice ==
    Called("readVarint")
    => /\ ret.st = "ok"
       /\ IF arg.index >= Len(arg.data)
          THEN ret.value = ZeroWord /\ ret.bytesRead = 0
          ELSE ret.bytesRead \in 1..Min(9, Len(arg.data) - arg.index)

C13_Witness ==
    /\ Called("readVarint") /\ ~arg.canonical
    /\ Len(arg.data) - arg.index \in 1..8
    /\ \A i \in (arg.index + 1)..Len(arg.data) : arg.data[i] >= 128
    /\ ret.st = "ok" /\ ret.bytesRead = Len(arg.data) - arg.index

\* a big-endian two's-complement integer of Len(bytes) bytes as an int64
SignExtend(bytes) ==
    [i \in 1..64 |-> IF i <= 64 - 8 * Len(bytes) THEN BytesBits(bytes)[1]
                     ELSE BytesBits(bytes)[i - (64 - 8 * Len(bytes))]]

\* C14: serial type 3 decodes to the 24-bit and serial type 5 to the 48-bit
\* big-endian two's-complement integer of the value bytes, sign-extended,
\* for every 3-byte and every 6-byte value.
C14_Int24AndInt48SignExtended ==
    (Called("processSerialType") /\ arg.serialType \in {3, 5})
    => ret = FormatWord(SignExtend(arg.value))

\* C15: getSerialTypeSize returns a width for every tag, never negative:
\* 0 for 0, 8, 9; the tag for 1..4; 6 for 5; 8 for 6 and 7; (tag-12)/2 for
\* an even tag from 12; (tag-13)/2 for an odd tag from 13; 0 for every
\* other tag, 10, 11 and the negative tags among them.
C15_SerialTypeSizeTable ==
    Called("getSerialTypeSize")
    => /\ ret >= 0
       /\ arg.tag \in {0, 8, 9} => ret = 0
       /\ arg.tag \in 1..4 => ret = arg.tag
       /\ arg.tag = 5 => ret = 6
       /\ arg.tag \in {6, 7} => ret = 8
       /\ arg.tag >= 12 => 2 * ret + 12 + (arg.tag % 2) = arg.tag
       /\ (arg.tag < 0 \/ arg.tag \in {10, 11}) => ret = 0

C15_Witness ==
    /\ Called("getSerialTypeSize")
    /\ arg.tag = 0 - MaxTag \/ arg.tag = 11 \/ arg.tag = 5 \/ arg.tag = MaxTag
    /\ ret = IF arg.tag = MaxTag THEN (MaxTag - 12) \div 2 ELSE IF arg.tag = 5 THEN 6 ELSE 0

\* C16: the header loop of processLeafCellRecord ends with the cursor at
\* the declared header size H: no byte at offset H or after is taken into a
\* serial type, and the body is read from offset H; also when the byte at
\* offset H - 1 has its continuation bit set.
C16_HeaderCursorEndsAtHeaderSize ==
    (Called("processLeafCellRecord") /\ arg.after >= 9)
    => /\ ret.st = "ok"
       /\ ret.headerOffset = 1 + Len(arg.types)
       /\ ret.bodyOffset = 1 + Len(arg.types)

\* the base of page p by the rule: (p - 1) * pageSize, plus 100 on page 1
RuleBase(p) == (p - 1) * PageSize + (IF p = 1 THEN 100 ELSE 0)

\* C17: every routine that visits a page takes (p - 1) * pageSize, plus 100
\* on page 1 only, as the base of page p, reads the page's fields and the
\* cell-pointer array from that base, and adds a cell offset to the base on
\* every page but page 1; so the record counts of countRecordsInBTree and
\* of getNumTablesInBTree are the leaf cells of the schema tree, whatever
\* pages the tree has.
C17_OneOffsetRule ==
    /\ (Done("dbinfo") /\ WellFormed(fixture))
       => /\ \A p \in 1..Len(fixture.pages) : PageOffset(p, PageSize) = RuleBase(p)
          /\ result.st = "ok"
          /\ result.out = RefLeafCells(fixture, 1)
    /\ (Done("dbinfo_part000") /\ WellFormed(fixture))
       => /\ \A p \in 1..Len(fixture.pages) : NumTablesPageOffset(p, PageSize) = RuleBase(p)
          /\ result.st = "ok"
          /\ result.out = RefLeafCells(fixture, 1)

\* C18: a well-formed leaf cell that lies wholly inside the file is decoded
\* wherever it sits: processLeafCellRecord returns its serial types and its
\* row-id, also when fewer than 9 bytes lie between the start of the cell
\* (or of its row-id) and the end of the file.
C18_CellAtEndOfFileIsDecoded ==
    (Called("processLeafCellRecord") /\ \A i \in 1..Len(arg.types) : arg.types[i] < 128)
    => /\ ret.st = "ok"
       /\ ret.serialTypes = arg.types
       /\ ret.rowId = arg.rowid
       /\ ret.bodyOffset = 1 + Len(arg.types)

\* C19: getColumnDataHelper reads and writes the decoded row within its
\* bounds: a row that stores fewer columns than the table declares, one
\* whose stored columns end just before a requested column or one with no
\* column at all, causes no out-of-range access.
C19_RowAccessWithinBounds ==
    (/\ Done("select") /\ fixture.damage \in {"shortrow", "emptyrow"}
     /\ HasTable(fixture, cmd.table))
    => result.st # "panic"

=============================================================================
